---- MODULE Spec2Model ----
(***************************************************************************)
(* The survey-response aggregation of the SSES dashboard pages.            *)
(*                                                                         *)
(* Two Streamlit page scripts are modelled, statement group by statement   *)
(* group, as one run of the script from top to bottom:                     *)
(*   pages/Emotion_Resilience.py    (page "Emotion")                       *)
(*   pages/Emotional_Resilience.py  (page "Emotional", uses preprocess.py) *)
(* An exception raised by a statement ends the run (Streamlit shows the    *)
(* traceback and keeps what was rendered before it).                       *)
(*                                                                         *)
(* Numbers.  Every numeric cell is a float that is a multiple of 0.5 (raw  *)
(* integers, and medians of integers), so a cell is held exactly as an     *)
(* integer count of halves: F(3) = 6 is 3.0 and 7 is 3.5.  Means,          *)
(* proportions and percentages are exact fractions [num, den]; a           *)
(* correlation coefficient is held as its sign and its exact square.       *)
(* Floating-point rounding is not modelled.                                *)
(*                                                                         *)
(* Emotion_Resilience.py lines 136-144 (a stale copy of the box plot that  *)
(* is drawn again at lines 191-194) do not parse as Python: a comma is     *)
(* missing after color="variable", and the fragment names an undefined     *)
(* resilience_cols.  The fragment has no behaviour to translate and        *)
(* computes no aggregate; the model is of the page without it.             *)
(***************************************************************************)
EXTENDS Integers, Sequences, FiniteSets, TLC

VARIABLES
    page,           \* which page script is running
    source,         \* the CSV behind the loader (attribute columns only)
    pc,             \* position of the run in the script
    df_loaded,      \* FALSE while df is unset or None
    df,             \* the dataframe object the loader returned
    available_cols, \* list of expected attribute columns present in df
    selected_attr,  \* Emotional page: the selectbox value
    value_counts,   \* Emotional page: df[selected_attr].value_counts()
    agree_prop,     \* Series: column -> share of rows with value 4 or 5
    metrics,        \* the three st.metric values of the executive summary
    mean_scores,    \* Series: column -> mean
    insight,        \* the attribute named by the radar insight
    corr,           \* correlation matrix: <<a, b>> -> coefficient
    high_corr,      \* the key-correlation-pairs table
    sentiment_df,   \* column -> sentiment triple
    out,            \* the elements rendered so far
    exc             \* the exception that ended the run, "" if none

vars == <<page, source, pc, df_loaded, df, available_cols, selected_attr,
          value_counts, agree_prop, metrics, mean_scores, insight, corr,
          high_corr, sentiment_df, out, exc>>

-----------------------------------------------------------------------------
(* Cells *)

\* A missing cell (float NaN).
NaN == 0 - 1
\* A cell holding text that is not a number.
Text == 0 - 2
\* The float v, in halves.
F(v) == 2 * v

\* The largest number of cells (columns x rows) of a drawn survey dataset.
MaxCells == 4

objective3_cols ==
    << "calm_under_pressure", "emotional_control", "adaptability",
       "self_motivation", "task_persistence", "teamwork" >>

Range(s) == {s[i] : i \in DOMAIN s}

\* The cell contents survey datasets are drawn from.
SurveyValues == {NaN, Text, F(2), F(3), F(4)}

\* All dataframes with attribute columns cs, n rows and cells from vals.
Frames(cs, n, vals) == [cs -> [1..n -> vals]]

\* The hand-computed scenario column: [5, 4, 1, missing, 3].
ScenarioColumn == << F(5), F(4), F(1), NaN, F(3) >>

ScenarioFrame == [c \in {"teamwork"} |-> ScenarioColumn]

\* One-column datasets over the scenario's values and number of rows.
ScenarioFrames == Frames({"teamwork"}, Len(ScenarioColumn), Range(ScenarioColumn))

\* The datasets the loader may deliver.
Datasets ==
    ScenarioFrames \cup
    UNION { UNION { Frames(cs, n, SurveyValues) :
                      n \in 0..(IF cs = {} THEN 0 ELSE MaxCells \div Cardinality(cs)) } :
            cs \in SUBSET Range(objective3_cols) }

NoFrame == << >>

-----------------------------------------------------------------------------
(* Exact fractions *)

Rat(n, d) == [num |-> n, den |-> d]
NaNRat == Rat(0, 0)
IsNaNRat(r) == r.den = 0
RatEq(a, b) == a.num * b.den = b.num * a.den
RatLess(a, b) == a.num * b.den < b.num * a.den

-----------------------------------------------------------------------------
(* Series helpers *)

RECURSIVE SeqSum(_)
SeqSum(s) == IF s = << >> THEN 0 ELSE Head(s) + SeqSum(Tail(s))

\* Number of positions of s whose value is in S.
CountIn(s, S) == Cardinality({i \in DOMAIN s : s[i] \in S})

NotNaN(s) == SelectSeq(s, LAMBDA v : v # NaN)

RECURSIVE InsertSorted(_, _)
InsertSorted(v, s) ==
    IF s = << >> THEN << v >>
    ELSE IF v <= Head(s) THEN << v >> \o s
    ELSE << Head(s) >> \o InsertSorted(v, Tail(s))

RECURSIVE SortAsc(_)
SortAsc(s) == IF s = << >> THEN << >> ELSE InsertSorted(Head(s), SortAsc(Tail(s)))

\* pd.to_numeric(errors="coerce") on one cell.
to_numeric(cell) == IF cell = Text THEN NaN ELSE cell

\* A median that takes the upper of the two middle values of an even count.
median_upper(s) ==
    LET v == SortAsc(NotNaN(s))
        n == Len(v)
    IN  IF n = 0 THEN NaN ELSE v[n \div 2 + 1]

\* Series.median(): NaN skipped; the mean of the two middle values when the
\* count is even; NaN when nothing is left.  Cells hold integers here, so the
\* half of the sum of two of them is exact in halves.
median(s) ==
    LET v == SortAsc(NotNaN(s))
        n == Len(v)
    IN  IF n = 0 THEN NaN
        ELSE IF n % 2 = 1 THEN v[(n + 1) \div 2]
        ELSE (v[n \div 2] + v[n \div 2 + 1]) \div 2

\* Series.fillna(value): a NaN fill value fills nothing.
fillna(s, value) == [i \in DOMAIN s |-> IF s[i] = NaN THEN value ELSE s[i]]

\* Series.mean() of a numeric column: NaN skipped, NaN when nothing is left.
mean(s) ==
    LET v == NotNaN(s)
    IN  IF Len(v) = 0 THEN NaNRat ELSE Rat(SeqSum(v), 2 * Len(v))

\* Series.isin([4, 5]).mean(): the share of all rows with value 4 or 5.
isin_4_5_mean(s) ==
    IF Len(s) = 0 THEN NaNRat ELSE Rat(CountIn(s, {F(4), F(5)}), Len(s))

-----------------------------------------------------------------------------
(* idxmax / idxmin *)

HasValue(cols, ser) == \E i \in DOMAIN cols : ~IsNaNRat(ser[cols[i]])

\* The scan of argmax over the values in index order: position i replaces
\* the best so far only when it is strictly greater, and NaN is skipped.
\* best = 0 while no value has been seen.
RECURSIVE ArgMax(_, _, _, _)
ArgMax(cols, ser, i, best) ==
    IF i > Len(cols) THEN best
    ELSE IF IsNaNRat(ser[cols[i]]) THEN ArgMax(cols, ser, i + 1, best)
    ELSE IF best = 0 \/ RatLess(ser[cols[best]], ser[cols[i]])
         THEN ArgMax(cols, ser, i + 1, i)
         ELSE ArgMax(cols, ser, i + 1, best)

\* The same scan for argmin.
RECURSIVE ArgMin(_, _, _, _)
ArgMin(cols, ser, i, best) ==
    IF i > Len(cols) THEN best
    ELSE IF IsNaNRat(ser[cols[i]]) THEN ArgMin(cols, ser, i + 1, best)
    ELSE IF best = 0 \/ RatLess(ser[cols[i]], ser[cols[best]])
         THEN ArgMin(cols, ser, i + 1, i)
         ELSE ArgMin(cols, ser, i + 1, best)

\* An idxmax that returns the last occurrence of the maximum.
idxmax_last(cols, ser) ==
    cols[CHOOSE i \in DOMAIN cols :
           /\ ~IsNaNRat(ser[cols[i]])
           /\ \A j \in DOMAIN cols :
                ~IsNaNRat(ser[cols[j]]) =>
                  /\ ~RatLess(ser[cols[i]], ser[cols[j]])
                  /\ (j > i => RatLess(ser[cols[j]], ser[cols[i]]))]

\* Series.idxmax(): the label of the first occurrence of the maximum.
idxmax(cols, ser) == cols[ArgMax(cols, ser, 1, 0)]

\* Series.idxmin(): the label of the first occurrence of the minimum.
idxmin(cols, ser) == cols[ArgMin(cols, ser, 1, 0)]

\* Series.mean() of a Series of fractions, NaN skipped.
RECURSIVE RatSum(_, _, _)
RatSum(cols, ser, i) ==
    IF i > Len(cols) THEN Rat(0, 1)
    ELSE LET rest == RatSum(cols, ser, i + 1)
             r == ser[cols[i]]
         IN  IF IsNaNRat(r) THEN rest
             ELSE Rat(r.num * rest.den + rest.num * r.den, r.den * rest.den)

series_mean(cols, ser) ==
    LET k == Cardinality({i \in DOMAIN cols : ~IsNaNRat(ser[cols[i]])})
        t == RatSum(cols, ser, 1)
    IN  IF k = 0 THEN NaNRat ELSE Rat(t.num, t.den * k)

-----------------------------------------------------------------------------
(* Pearson correlation *)

RECURSIVE GCD(_, _)
GCD(a, b) == IF b = 0 THEN a ELSE GCD(b, a % b)

Sign(x) == IF x > 0 THEN 1 ELSE IF x < 0 THEN 0 - 1 ELSE 0

\* A coefficient r is held as [sgn, sq]: the sign of r and r * r in lowest
\* terms, so that equal coefficients are equal values.
NaNCorr == [sgn |-> 0, sq |-> NaNRat]
IsNaNCorr(r) == r.sq.den = 0
CorrKeyLess(a, b) == a.sgn * a.sq.num * b.sq.den < b.sgn * b.sq.num * a.sq.den
\* r < 1
BelowOne(r) == ~IsNaNCorr(r) /\ ~(r.sgn = 1 /\ r.sq.num = r.sq.den)

\* DataFrame.corr() for one pair of numeric columns: the rows where both are
\* present; NaN when there is none or when either column is constant there.
pearson(x, y) ==
    LET rows == {i \in DOMAIN x : x[i] # NaN /\ y[i] # NaN}
        n == Cardinality(rows)
        Sum(f(_)) ==
            LET RECURSIVE S(_)
                S(R) == IF R = {} THEN 0
                        ELSE LET i == CHOOSE j \in R : TRUE IN f(i) + S(R \ {i})
            IN  S(rows)
        sx == Sum(LAMBDA i : x[i])
        sy == Sum(LAMBDA i : y[i])
        sxy == Sum(LAMBDA i : x[i] * y[i])
        sxx == Sum(LAMBDA i : x[i] * x[i])
        syy == Sum(LAMBDA i : y[i] * y[i])
        c == n * sxy - sx * sy
        vx == n * sxx - sx * sx
        vy == n * syy - sy * sy
        g == GCD(c * c, vx * vy)
    IN  IF n = 0 \/ vx * vy = 0 THEN NaNCorr
        ELSE [sgn |-> Sign(c), sq |-> Rat((c * c) \div g, (vx * vy) \div g)]

\* DataFrame.corr() over the columns cs: every ordered pair, self-pairs
\* included.
corr_matrix(frame, cs) ==
    [p \in cs \X cs |-> pearson(frame[p[1]], frame[p[2]])]

\* The first k of the set S of distinct coefficients, highest first.
RECURSIVE TopDesc(_, _)
TopDesc(S, k) ==
    IF S = {} \/ k = 0 THEN << >>
    ELSE LET m == CHOOSE a \in S : \A b \in S : ~CorrKeyLess(a, b)
         IN  << m >> \o TopDesc(S \ {m}, k - 1)

\* Rows the key-pairs table keeps.
TopPairs == 3

\* corr.unstack().sort_values(ascending=False).drop_duplicates(), then
\* [high_corr < 1].head(3): one row per distinct coefficient value below 1
\* (NaN is not below 1), highest first, at most three.
high_corr_values(m) ==
    TopDesc({m[p] : p \in {q \in DOMAIN m : BelowOne(m[q])}}, TopPairs)

\* The tables the statement can produce: drop_duplicates keeps, for each
\* value, the pair the sort placed first, and the default sort
\* (kind="quicksort") is free to place any of the pairs that share a value
\* first.
high_corr_tables(m) ==
    LET v == high_corr_values(m)
    IN  {t \in [DOMAIN v -> DOMAIN m] : \A i \in DOMAIN v : m[t[i]] = v[i]}

-----------------------------------------------------------------------------
(* Sentiment *)

\* get_sentiment, given the cells that df[col] selects:
\* value_counts(normalize=True) counts the non-NaN cells and divides by their
\* number; reindex([1,2,3,4,5], fill_value=0) keeps the five scale values and
\* drops every other value.  The triple shares the denominator den.
get_sentiment(cells) ==
    LET v == NotNaN(cells)
        n == Len(v)
        count(k) == CountIn(v, {F(k)})
    IN  IF n = 0
        THEN [Disagree |-> 0, Neutral |-> 0, Agree |-> 0, den |-> 1]
        ELSE [Disagree |-> 0 - (count(1) + count(2)) * 100,
              Neutral |-> count(3) * 100,
              Agree |-> (count(4) + count(5)) * 100,
              den |-> n]

-----------------------------------------------------------------------------
(* Code after the sentiment section of Emotion_Resilience.py *)

\* A Python list index i (from 0) is valid for a list of n entries.
in_bounds(i, n) == i < n

\* Positions of available_cols read by the radar chart (line 107).
radar_positions == {0}

\* Positions of available_cols read by the "Critical Link" sentence (line 210).
conclusion_positions == {1, 2}

\* The orders tree_data can have: the attributes by mean score, highest
\* first.  sort_values is called without kind=, so the scores are ordered
\* by the default quicksort, which does not promise an order among equal
\* scores; NaN scores are set aside and appended in their original order.
tree_data_orders(cols, ser) ==
    LET k == Len(cols)
        Before(a, b) ==   \* the row at position a must precede the one at b
            \/ ~IsNaNRat(ser[cols[a]]) /\ IsNaNRat(ser[cols[b]])
            \/ IsNaNRat(ser[cols[a]]) /\ IsNaNRat(ser[cols[b]]) /\ a < b
            \/ /\ ~IsNaNRat(ser[cols[a]]) /\ ~IsNaNRat(ser[cols[b]])
               /\ RatLess(ser[cols[b]], ser[cols[a]])
    IN  {[i \in 1..k |-> cols[p[i]]] :
           p \in {q \in [1..k -> 1..k] :
                    /\ \A i, j \in 1..k : i # j => q[i] # q[j]
                    /\ \A i, j \in 1..k : i < j => ~Before(q[j], q[i])}}

-----------------------------------------------------------------------------
(* The run *)

Pages == {"Emotion", "Emotional"}
NoMetrics == [overall |-> NaNRat, top |-> "", growth |-> ""]
Terminal == {"done", "stopped", "crashed"}

Fresh ==
    /\ pc = "load"
    /\ df_loaded = FALSE
    /\ df = NoFrame
    /\ available_cols = << >>
    /\ selected_attr = ""
    /\ value_counts = << >>
    /\ agree_prop = << >>
    /\ metrics = NoMetrics
    /\ mean_scores = << >>
    /\ insight = ""
    /\ corr = << >>
    /\ high_corr = << >>
    /\ sentiment_df = << >>
    /\ out = {}
    /\ exc = ""

Init ==
    /\ page \in Pages
    /\ source \in Datasets
    /\ Fresh

\* The run ends with an uncaught exception e.
Raise(e) == pc' = "crashed" /\ exc' = e

\* [c for c in objective3_cols if c in df.columns]
resolve(frame) == SelectSeq(objective3_cols, LAMBDA c : c \in DOMAIN frame)

(* ---- pages/Emotion_Resilience.py ---- *)

\* df = load_emotion_data(): the CSV, or None after reporting the failure.
LoadEmotionData ==
    /\ page = "Emotion" /\ pc = "load"
    /\ \E ok \in BOOLEAN :
         IF ok
         THEN df' = source /\ df_loaded' = TRUE /\ out' = out
         ELSE df' = NoFrame /\ df_loaded' = FALSE
              /\ out' = out \cup {"error:could not connect"}
    /\ pc' = "resolve"
    /\ UNCHANGED <<page, source, available_cols, selected_attr, value_counts,
                   agree_prop, metrics, mean_scores, insight, corr, high_corr,
                   sentiment_df, exc>>

\* if df is not None: available_cols = ...; if not available_cols: st.error
ResolveColumns ==
    /\ page = "Emotion" /\ pc = "resolve"
    /\ IF ~df_loaded
       THEN /\ out' = out \cup {"warning:repository not public"}
            /\ pc' = "done"
            /\ UNCHANGED available_cols
       ELSE /\ available_cols' = resolve(df)
            /\ IF available_cols' = << >>
               THEN out' = out \cup {"error:required columns not found"}
                    /\ pc' = "done"
               ELSE out' = out /\ pc' = "coerce"
    /\ UNCHANGED <<page, source, df_loaded, df, selected_attr, value_counts,
                   agree_prop, metrics, mean_scores, insight, corr, high_corr,
                   sentiment_df, exc>>

\* df[available_cols] = df[available_cols].apply(pd.to_numeric, errors="coerce")
Coerce ==
    /\ page = "Emotion" /\ pc = "coerce"
    /\ df' = [c \in DOMAIN df |->
                IF c \in Range(available_cols)
                THEN [i \in DOMAIN df[c] |-> to_numeric(df[c][i])]
                ELSE df[c]]
    /\ pc' = "impute"
    /\ UNCHANGED <<page, source, df_loaded, available_cols, selected_attr,
                   value_counts, agree_prop, metrics, mean_scores, insight,
                   corr, high_corr, sentiment_df, out, exc>>

\* df[available_cols] = df[available_cols].fillna(df[available_cols].median())
Impute ==
    /\ page = "Emotion" /\ pc = "impute"
    /\ df' = [c \in DOMAIN df |->
                IF c \in Range(available_cols)
                THEN fillna(df[c], median(df[c]))
                ELSE df[c]]
    /\ pc' = "metrics"
    /\ UNCHANGED <<page, source, df_loaded, available_cols, selected_attr,
                   value_counts, agree_prop, metrics, mean_scores, insight,
                   corr, high_corr, sentiment_df, out, exc>>

\* Executive summary: agree_prop and the three metrics.  idxmax of a Series
\* that is all NaN (a dataframe without rows) yields no label, and the
\* .replace on it raises after the first metric is drawn.
KeyMetrics ==
    /\ page = "Emotion" /\ pc = "metrics"
    /\ agree_prop' = [c \in Range(available_cols) |-> isin_4_5_mean(df[c])]
    /\ IF HasValue(available_cols, agree_prop')
       THEN /\ metrics' = [overall |-> series_mean(available_cols, agree_prop'),
                           top |-> idxmax(available_cols, agree_prop'),
                           growth |-> idxmin(available_cols, agree_prop')]
            /\ out' = out \cup {"metric:overall", "metric:top", "metric:growth"}
            /\ pc' = "radar"
            /\ exc' = exc
       ELSE /\ metrics' = [NoMetrics EXCEPT !.overall =
                                        series_mean(available_cols, agree_prop')]
            /\ out' = out \cup {"metric:overall"}
            /\ Raise("idxmax of an all-NaN Series")
    /\ UNCHANGED <<page, source, df_loaded, df, available_cols, selected_attr,
                   value_counts, mean_scores, insight, corr, high_corr,
                   sentiment_df>>

\* 1. Radar chart and its insight (mean_scores.idxmax()).
RadarChart ==
    /\ page = "Emotion" /\ pc = "radar"
    /\ mean_scores' = [c \in Range(available_cols) |-> mean(df[c])]
    /\ \A i \in radar_positions : in_bounds(i, Len(available_cols))
    /\ out' = out \cup {"chart:radar"}
    /\ IF HasValue(available_cols, mean_scores')
       THEN insight' = idxmax(available_cols, mean_scores')
            /\ pc' = "correlation" /\ exc' = exc
       ELSE insight' = insight /\ Raise("idxmax of an all-NaN Series")
    /\ UNCHANGED <<page, source, df_loaded, df, available_cols, selected_attr,
                   value_counts, agree_prop, metrics, corr, high_corr,
                   sentiment_df>>

\* 2. Correlation matrix and the key-correlation-pairs table.
Correlation ==
    /\ page = "Emotion" /\ pc = "correlation"
    /\ corr' = corr_matrix(df, Range(available_cols))
    /\ high_corr' \in high_corr_tables(corr')
    /\ out' = out \cup {"chart:correlation", "table:key pairs"}
    /\ pc' = "violin"
    /\ UNCHANGED <<page, source, df_loaded, df, available_cols, selected_attr,
                   value_counts, agree_prop, metrics, mean_scores, insight,
                   sentiment_df, exc>>

\* 3. Violin plot of df.melt(value_vars=available_cols).
ScoreDensity ==
    /\ page = "Emotion" /\ pc = "violin"
    /\ out' = out \cup {"chart:violin"}
    /\ pc' = "sentiment"
    /\ UNCHANGED <<page, source, df_loaded, df, available_cols, selected_attr,
                   value_counts, agree_prop, metrics, mean_scores, insight,
                   corr, high_corr, sentiment_df, exc>>

\* 4. sentiment_df = df[available_cols].apply(get_sentiment): apply hands
\* get_sentiment each column as a Series, and get_sentiment evaluates
\* df[col] with that Series as the key.  A Series key that is not boolean is
\* a list of column labels; the cells are numbers and no column is labelled
\* by one, so a key with at least one cell raises KeyError, and an empty key
\* selects no cells.
Sentiment ==
    /\ page = "Emotion" /\ pc = "sentiment"
    /\ IF \E c \in Range(available_cols) : Len(df[c]) > 0
       THEN /\ Raise("KeyError")
            /\ UNCHANGED <<sentiment_df, out>>
       ELSE /\ sentiment_df' = [c \in Range(available_cols) |-> get_sentiment(<< >>)]
            /\ out' = out \cup {"chart:sentiment"}
            /\ pc' = "hierarchy"
            /\ exc' = exc
    /\ UNCHANGED <<page, source, df_loaded, df, available_cols, selected_attr,
                   value_counts, agree_prop, metrics, mean_scores, insight,
                   corr, high_corr>>

(* ---- pages/Emotional_Resilience.py ---- *)

\* df = load_data(): the sheet, or the exception of a failed read.
LoadData ==
    /\ page = "Emotional" /\ pc = "load"
    /\ \E ok \in BOOLEAN :
         IF ok
         THEN df' = source /\ df_loaded' = TRUE /\ pc' = "resolve" /\ exc' = exc
         ELSE df' = NoFrame /\ df_loaded' = FALSE /\ Raise("read_csv failed")
    /\ UNCHANGED <<page, source, available_cols, selected_attr, value_counts,
                   agree_prop, metrics, mean_scores, insight, corr, high_corr,
                   sentiment_df, out>>

\* available_cols = ...; if len(available_cols) < 2: st.warning; st.stop()
CheckAvailable ==
    /\ page = "Emotional" /\ pc = "resolve"
    /\ available_cols' = resolve(df)
    /\ IF Len(available_cols') < 2
       THEN out' = out \cup {"warning:variables not available"} /\ pc' = "stopped"
       ELSE out' = out /\ pc' = "distribution"
    /\ UNCHANGED <<page, source, df_loaded, df, selected_attr, value_counts,
                   agree_prop, metrics, mean_scores, insight, corr, high_corr,
                   sentiment_df, exc>>

\* 1. Likert distribution of the selected attribute (value_counts drops NaN).
Distribution ==
    /\ page = "Emotional" /\ pc = "distribution"
    /\ \E a \in Range(available_cols) :
         /\ selected_attr' = a
         /\ value_counts' = [v \in Range(NotNaN(df[a])) |-> CountIn(df[a], {v})]
    /\ out' = out \cup {"chart:distribution"}
    /\ pc' = "profile"
    /\ UNCHANGED <<page, source, df_loaded, df, available_cols, agree_prop,
                   metrics, mean_scores, insight, corr, high_corr,
                   sentiment_df, exc>>

\* Columns read_csv left as text (dtype object): those with a text cell.
object_cols(frame, cols) == {c \in Range(cols) : Text \in Range(frame[c])}

\* 2. mean_scores = df[available_cols].mean() on the raw columns.  For a
\* text column the result depends on the installed pandas: it raises
\* TypeError, or (before 2.0) leaves the column out.
MeanProfile ==
    /\ page = "Emotional" /\ pc = "profile"
    /\ \E raises \in BOOLEAN :
         IF raises /\ object_cols(df, available_cols) # {}
         THEN Raise("TypeError") /\ UNCHANGED <<mean_scores, out>>
         ELSE /\ mean_scores' =
                   [c \in Range(available_cols) \ object_cols(df, available_cols)
                      |-> mean(df[c])]
              /\ out' = out \cup {"chart:radar"}
              /\ pc' = "correlation"
              /\ exc' = exc
    /\ UNCHANGED <<page, source, df_loaded, df, available_cols, selected_attr,
                   value_counts, agree_prop, metrics, insight, corr, high_corr,
                   sentiment_df>>

\* 3. corr = df[available_cols].corr().  A run that got here with a text
\* column runs a pandas that leaves text columns out.  The sections that
\* follow (box plot, comparison by gender) draw df as it is.
CorrelationHeatmap ==
    /\ page = "Emotional" /\ pc = "correlation"
    /\ corr' = corr_matrix(df, Range(available_cols) \ object_cols(df, available_cols))
    /\ out' = out \cup {"chart:correlation"}
    /\ pc' = "done"
    /\ UNCHANGED <<page, source, df_loaded, df, available_cols, selected_attr,
                   value_counts, agree_prop, metrics, mean_scores, insight,
                   high_corr, sentiment_df, exc>>

\* Streamlit runs the selected page's script again, from the top, on every
\* interaction; the cached loader serves the same data.
Rerun ==
    /\ pc \in Terminal
    /\ page' \in Pages
    /\ pc' = "load"
    /\ df_loaded' = FALSE
    /\ df' = NoFrame
    /\ available_cols' = << >>
    /\ selected_attr' = ""
    /\ value_counts' = << >>
    /\ agree_prop' = << >>
    /\ metrics' = NoMetrics
    /\ mean_scores' = << >>
    /\ insight' = ""
    /\ corr' = << >>
    /\ high_corr' = << >>
    /\ sentiment_df' = << >>
    /\ out' = {}
    /\ exc' = ""
    /\ UNCHANGED source

Next ==
    \/ LoadEmotionData
    \/ ResolveColumns
    \/ Coerce
    \/ Impute
    \/ KeyMetrics
    \/ RadarChart
    \/ Correlation
    \/ ScoreDensity
    \/ Sentiment
    \/ LoadData
    \/ CheckAvailable
    \/ Distribution
    \/ MeanProfile
    \/ CorrelationHeatmap
    \/ Rerun

Spec == Init /\ [][Next]_vars

-----------------------------------------------------------------------------
(* Properties *)

Cols == Range(available_cols)
Pos(c) == CHOOSE i \in DOMAIN available_cols : available_cols[i] = c

\* C1: for every available attribute column, the sentiment triple that
\* get_sentiment computes from the cleaned column satisfies
\* |disagree%| + neutral% + agree% = 100.
C1_SentimentSumsTo100 ==
    (page = "Emotion" /\ pc = "sentiment") =>
        \A c \in Cols :
            LET t == get_sentiment(df[c])
            IN  (0 - t.Disagree) + t.Neutral + t.Agree = 100 * t.den

InfeasibleMessages ==
    {"error:required columns not found", "warning:variables not available"}

\* C2: with fewer than 2 available attribute columns the page reports the
\* analysis as infeasible and produces no metric, chart or table; with 2 or
\* more it reports no such thing and goes on.
C2_InfeasibleBelowTwoColumns ==
    (df_loaded /\ pc \notin {"load", "resolve"}) =>
        IF Len(available_cols) < 2
        THEN /\ out \cap InfeasibleMessages # {}
             /\ out \subseteq InfeasibleMessages
             /\ DOMAIN agree_prop = {} /\ DOMAIN mean_scores = {}
             /\ DOMAIN corr = {} /\ DOMAIN sentiment_df = {}
        ELSE out \cap InfeasibleMessages = {} /\ pc # "stopped"

\* The page that cleans its columns is at a statement that computes means,
\* agreement proportions, correlations or sentiment.
AtStatistics ==
    page = "Emotion" /\ pc \in {"metrics", "radar", "correlation", "sentiment"}

\* C3: where the statistics are computed no available column holds a
\* missing value: a cell that was missing or not a number holds the median
\* of the column's numbers, and a cell that was a number is unchanged.
C3_NoMissingAtStatistics ==
    AtStatistics =>
        \A c \in Cols : \A i \in DOMAIN df[c] :
            /\ df[c][i] \notin {NaN, Text}
            /\ IF source[c][i] \in {NaN, Text}
               THEN df[c][i] = median([j \in DOMAIN source[c] |-> to_numeric(source[c][j])])
               ELSE df[c][i] = source[c][i]

\* C4: the statistics are never entered with an available column that has
\* no number in it: such a column makes the cleaning step fail.
C4_EmptyColumnFails ==
    (page = "Emotion" /\ pc = "metrics") =>
        \A c \in Cols : NotNaN(df[c]) # << >>

\* The scenario dataset has been cleaned and its statistics computed.
ScenarioComputed ==
    source = ScenarioFrame /\ page = "Emotion" /\ pc \in {"correlation", "violin", "sentiment"}

\* C5 as stated: for teamwork = [5,4,1,missing,3] the imputed column is
\* [5,4,1,4,3], its mean 3.4 and its agreement proportion 2/5.
C5_ScenarioAsStated ==
    ScenarioComputed =>
        /\ df["teamwork"] = << F(5), F(4), F(1), F(4), F(3) >>
        /\ RatEq(mean_scores["teamwork"], Rat(34, 10))
        /\ RatEq(agree_prop["teamwork"], Rat(2, 5))

\* C5 as amended: for teamwork = [5,4,1,missing,3] the median of the four
\* numbers is 3.5, the imputed column is [5,4,1,3.5,3], its mean is 3.3 and
\* its agreement proportion is 2/5.
C5_ScenarioAsComputed ==
    ScenarioComputed =>
        /\ df["teamwork"] = << F(5), F(4), F(1), F(3) + 1, F(3) >>
        /\ RatEq(mean_scores["teamwork"], Rat(33, 10))
        /\ RatEq(agree_prop["teamwork"], Rat(2, 5))

C5_Witness == ScenarioComputed /\ pc = "sentiment"

\* Share of the rows of column c with value 4 or 5.
Share(c) == Rat(Cardinality({i \in DOMAIN df[c] : df[c][i] = F(4) \/ df[c][i] = F(5)}),
                Len(df[c]))

\* C6: the Top Strength shown is the available attribute with the highest
\* agreement proportion and the Growth Area the one with the lowest; among
\* attributes that tie, the first in available-columns order is shown.
C6_TopStrengthAndGrowthArea ==
    (page = "Emotion" /\ "metric:top" \in out) =>
        /\ metrics.top \in Cols /\ metrics.growth \in Cols
        /\ \A c \in Cols :
             /\ ~RatLess(Share(metrics.top), Share(c))
             /\ (Pos(c) < Pos(metrics.top) => RatLess(Share(c), Share(metrics.top)))
             /\ ~RatLess(Share(c), Share(metrics.growth))
             /\ (Pos(c) < Pos(metrics.growth) => RatLess(Share(metrics.growth), Share(c)))

\* Two attributes tie for the highest proportion, a third is lower.
C6_Witness ==
    /\ page = "Emotion" /\ "metric:top" \in out
    /\ \E c \in Cols : c # metrics.top /\ RatEq(Share(c), Share(metrics.top))
    /\ metrics.growth # metrics.top
    /\ RatLess(Share(metrics.growth), Share(metrics.top))

Min(a, b) == IF a < b THEN a ELSE b

\* C7: when every pairwise coefficient is defined, the key-pairs table holds
\* the 3 unordered pairs of distinct attributes with the highest
\* coefficients (all pairs when fewer exist), highest first, each pair once.
C7_TopThreePairs ==
    (page = "Emotion" /\ "table:key pairs" \in out
       /\ \A p \in DOMAIN corr : ~IsNaNCorr(corr[p])) =>
        LET k == Len(available_cols)
            shown == {{high_corr[i][1], high_corr[i][2]} : i \in DOMAIN high_corr}
        IN  /\ Len(high_corr) = Min(TopPairs, (k * (k - 1)) \div 2)
            /\ \A i \in DOMAIN high_corr : high_corr[i][1] # high_corr[i][2]
            /\ Cardinality(shown) = Len(high_corr)
            /\ \A i, j \in DOMAIN high_corr :
                 i < j => ~CorrKeyLess(corr[high_corr[i]], corr[high_corr[j]])
            /\ \A p \in DOMAIN corr :
                 (p[1] # p[2] /\ {p[1], p[2]} \notin shown) =>
                   \A i \in DOMAIN high_corr : ~CorrKeyLess(corr[high_corr[i]], corr[p])

\* C8: a page run leaves the dataframe the loader returned as it was: at
\* the end of the run every cell holds what the loader delivered.
C8_InputNotMutated ==
    (pc \in Terminal /\ df_loaded) => df = source

\* C9: tree_data lists the attributes by mean score, highest first, equal
\* scores in available-columns order, and its first entry is the attribute
\* the radar insight names.
C9_HierarchyStableDescending ==
    (page = "Emotion" /\ pc = "correlation") =>
        \A t \in tree_data_orders(available_cols, mean_scores) :
            /\ t[1] = insight
            /\ \A i, j \in DOMAIN t :
                 (i < j /\ ~IsNaNRat(mean_scores[t[i]]) /\ ~IsNaNRat(mean_scores[t[j]])) =>
                   /\ ~RatLess(mean_scores[t[i]], mean_scores[t[j]])
                   /\ (RatEq(mean_scores[t[i]], mean_scores[t[j]]) => Pos(t[i]) < Pos(t[j]))

\* C10: once the analysis branch is entered, every position of
\* available_cols the rest of the script reads exists.
C10_PositionsInBounds ==
    (page = "Emotion" /\ pc \in {"coerce", "impute"} \cup {"metrics", "radar", "correlation", "violin", "sentiment"}) =>
        \A i \in radar_positions \cup conclusion_positions :
            in_bounds(i, Len(available_cols))

====
